---- MODULE Spec2Model ----
(***************************************************************************)
(* A model of excel_solver.py: solve() validates a spreadsheet-style       *)
(* linear program, converts it to the canonical form of scipy's linprog,   *)
(* calls linprog once and prints or returns its result.                    *)
(*                                                                         *)
(* Values.  An optional Python value is a sequence of length 0 (None) or 1.*)
(* A bound pair is <<lower, upper>> of two optional values.  The solver's  *)
(* objective value `fun` is a fixed-point decimal counted in thousandths.  *)
(* The printed OPTIMAL VALUE is [integer, hundredths]: the number counted  *)
(* in hundredths, and whether Python prints it as an int.                  *)
(***************************************************************************)
EXTENDS Integers, Sequences, FiniteSets, TLC

\* Bounds of the model: variables, constraints, calls made by one caller.
MaxN == 2
MaxM == 2
MaxCalls == 2

VARIABLES
    args,             \* the caller's argument objects (mutable, owned by the caller)
    given,            \* the values the caller passed to the current call
    same_objects,     \* the current call reuses the previous call's objects
    numpy_ragged,     \* what this numpy build does with a ragged nested list
    memo,             \* linprog's results so far (linprog is a function of its input)
    log,              \* one record per finished call
    pc,               \* position in solve()
    error,            \* the exception solve() raised, "" if none
    stdout,           \* what the current call printed
    returned,         \* what the current call returned
    handed,           \* the arguments of the current call's linprog() calls
    optimal,          \* the OPTIMAL VALUE the current call printed
    obj, c_l, c_l_dtype, c_r, signs, bounds,
    equalities_left, equalities_right, solution

vars == <<args, given, same_objects, numpy_ragged, memo, log, pc, error, stdout,
          returned, handed, optimal, obj, c_l, c_l_dtype, c_r, signs, bounds,
          equalities_left, equalities_right, solution>>

locals == <<obj, c_l, c_l_dtype, c_r, signs, bounds,
            equalities_left, equalities_right, solution>>

-----------------------------------------------------------------------------
\* Python values

None == <<>>

Some(v) == <<v>>

\* Python truthiness of an optional number: None and 0 are falsy.
Truthy(x) == x # None /\ x[1] # 0

\* An absent block (None) or an array of rows.
Absent == [present |-> FALSE, rows |-> <<>>]

Array(rows) == [present |-> TRUE, rows |-> rows]

\* All sequences over S of length lo..hi.
SeqsOf(S, lo, hi) == UNION {[1..k -> S] : k \in lo..hi}

Neg(v) == [i \in 1..Len(v) |-> -v[i]]

\* (signs == tok): the elementwise comparison of a numpy string array.
Mask(s, tok) == [i \in 1..Len(s) |-> s[i] = tok]

\* a[mask]: the elements selected by a boolean mask, in order.
RECURSIVE BoolIndex(_, _)
BoolIndex(a, mask) ==
    IF Len(a) = 0 \/ Len(mask) = 0 THEN <<>>
    ELSE (IF Head(mask) THEN <<Head(a)>> ELSE <<>>) \o BoolIndex(Tail(a), Tail(mask))

\* np.delete(a, np.where(mask), 0): the elements the mask does not select.
Delete(a, mask) == BoolIndex(a, [i \in 1..Len(mask) |-> ~mask[i]])

\* x in s, for a list or an array.
Contains(s, x) == \E i \in 1..Len(s) : s[i] = x

-----------------------------------------------------------------------------
\* validate()

\* The messages validate() prints, in order. It reads c_l[0]: the caller of this
\* operator checks that the matrix has a first row.
ValidationMessages(o, cl, cr, sg, pt) ==
    (IF ~(Len(o) = Len(cl[1])) THEN <<"objective_length">> ELSE <<>>)
    \o (IF ~(Len(cl) = Len(cr) /\ Len(cr) = Len(sg)) THEN <<"lengths">> ELSE <<>>)
    \o (IF ~(pt = "max" \/ pt = "min") THEN <<"problem_type">> ELSE <<>>)
    \o (IF Contains(sg, ">") \/ Contains(sg, "<") THEN <<"strict_sign">> ELSE <<>>)

-----------------------------------------------------------------------------
\* solve(): the pure parts

\* A nested list whose rows differ in length.
Ragged(cl) == \E i, j \in 1..Len(cl) : Len(cl[i]) # Len(cl[j])

\* A conversion that copies only lists, as np.asarray(x) does.
SharesMemoryOfArrays(container) == container = "ndarray"

\* np.array(x) copies: the local array never shares memory with the argument.
SharesMemory(container) == FALSE

\* `if not bounds:` on the bounds argument: "True", "False", or "ValueError" for
\* an array of more than one element, whose truth value numpy refuses to give.
NotBounds(b) ==
    CASE b.kind = "None" -> "True"
      [] b.kind = "list" -> IF Len(b.pairs) = 0 THEN "True" ELSE "False"
      [] OTHER -> IF 2 * Len(b.pairs) > 1 THEN "ValueError" ELSE "True"

\* The derived bounds: [0, None] per variable, then the three knobs in order.
DerivedBounds(n, non_negative, minimum, maximum) ==
    LET lower0 == IF non_negative = FALSE THEN None ELSE Some(0)
        lower  == IF Truthy(minimum) THEN minimum ELSE lower0
        upper  == IF Truthy(maximum) THEN maximum ELSE None
    IN  [i \in 1..n |-> <<lower, upper>>]

\* An objective that is never negated.
ObjectiveSignUnflipped(pt) == 1

\* The factor applied to the objective coefficients.
ObjectiveSign(pt) == IF pt = "max" THEN -1 ELSE 1

Scaled(k, v) == [i \in 1..Len(v) |-> k * v[i]]

\* c_r[mask] *= -1
NegateWhere(v, mask) == [i \in 1..Len(v) |-> IF mask[i] THEN -v[i] ELSE v[i]]

\* c_l[mask] *= -1: a numeric row is negated; in an object array of Python lists
\* each selected list is repeated -1 times, which empties it.
NegateRowsWhere(m, mask, dtype) ==
    [i \in 1..Len(m) |->
        IF ~mask[i] THEN m[i]
        ELSE IF dtype = "object" THEN <<>> ELSE Neg(m[i])]

\* The arguments of the linprog() call.
LinprogInput ==
    [c |-> obj, A_ub |-> c_l, b_ub |-> c_r,
     A_eq |-> equalities_left, b_eq |-> equalities_right, bounds |-> bounds]

-----------------------------------------------------------------------------
\* print_results()

Abs(x) == IF x < 0 THEN -x ELSE x

Sgn(x) == IF x < 0 THEN -1 ELSE 1

\* round(fun, ndigits=2), in hundredths. FunValues holds no tie (a thousandths
\* digit of 5), whose rounding depends on the binary float.
RoundHundredths(fun) ==
    Sgn(fun) * ((Abs(fun) \div 10) + (IF Abs(fun) % 10 >= 5 THEN 1 ELSE 0))

\* int(fun): truncation toward zero, as a whole number.
IntOf(fun) == Sgn(fun) * (Abs(fun) \div 1000)

\* The OPTIMAL VALUE print_results() prints.
Shown(fun, ptype) ==
    LET rounded == RoundHundredths(fun)
        value   == IF rounded % 100 = 0
                     THEN [integer |-> TRUE, hundredths |-> 100 * IntOf(fun)]
                     ELSE [integer |-> FALSE, hundredths |-> rounded]
    IN  IF ptype = "max" THEN [value EXCEPT !.hundredths = -1 * @] ELSE value

\* The objective values linprog may report, in thousandths.
FunValues == {-1999, 1999, 2340, 3000}

-----------------------------------------------------------------------------
\* The calls a caller may make

Call(pt, o, cl, cr, sg, container, nn, mn, mx, b, d) ==
    [problem_type |-> pt, objective_function |-> o, constraints_left |-> cl,
     constraints_right |-> cr, constraints_signs |-> sg, container |-> container,
     make_unconstrained_non_negative |-> nn, minimum_for_all |-> mn,
     maximum_for_all |-> mx, bounds |-> b, display_result |-> d]

NoBounds == [kind |-> "None", pairs |-> <<>>]

\* The coefficient and right-hand side written at a given place of a problem.
CoefficientAt(i, j) == i * j - 2

RhsAt(i) == 3 * i

RowOf(i, n) == [j \in 1..n |-> CoefficientAt(i, j)]

\* The matrix whose row i has lens[i] coefficients.
MatrixOf(lens) == [i \in 1..Len(lens) |-> RowOf(i, lens[i])]

RhsOf(m) == [i \in 1..m |-> RhsAt(i)]

ObjectiveOf(n) == [j \in 1..n |-> 2 * j - 3]

Coefficients == {-1, 2}

SignTokens == {"<=", ">=", "=", "<", ">", "=="}

\* Problems of every shape, well-formed or not, passed as lists.
ShapeCalls ==
    {Call(pt, ObjectiveOf(n), MatrixOf(lens), RhsOf(r), sg, "list",
          TRUE, None, None, NoBounds, d) :
        pt \in {"max", "min", "maximize"}, n \in 0..MaxN,
        lens \in SeqsOf(0..MaxN, 0, MaxM), r \in 0..MaxM,
        sg \in SeqsOf(SignTokens, 0, MaxM), d \in BOOLEAN}

\* Rectangular problems that pass validate(), as lists or arrays.
CanonCallsOf(m) ==
    {Call(pt, o, MatrixOf([i \in 1..m |-> Len(o)]), RhsOf(m), sg, container,
          TRUE, None, None, NoBounds, d) :
        pt \in {"max", "min"}, o \in SeqsOf(Coefficients, 1, MaxN),
        sg \in [1..m -> {"<=", ">=", "=", "=="}],
        container \in {"list", "ndarray"}, d \in BOOLEAN}

CanonCalls == UNION {CanonCallsOf(m) : m \in 1..MaxM}

BoundPairs == {<<Some(0), None>>, <<Some(1), Some(4)>>}

BoundsArguments(n) ==
    {NoBounds} \cup
    {[kind |-> k, pairs |-> ps] : k \in {"list", "ndarray"}, ps \in [1..n -> BoundPairs]}

\* One-constraint problems under every setting of the bounds options.
BoundsCallsOf(n) ==
    {Call(pt, ObjectiveOf(n), MatrixOf(<<n>>), RhsOf(1), <<"<=">>, "list",
          nn, mn, mx, b, d) :
        pt \in {"max", "min"}, nn \in BOOLEAN,
        mn \in {None, Some(0), Some(-2), Some(5)},
        mx \in {None, Some(0), Some(7)},
        b \in BoundsArguments(n), d \in BOOLEAN}

BoundsCalls == UNION {BoundsCallsOf(n) : n \in 1..MaxN}

-----------------------------------------------------------------------------
\* The state machine

InitFrom(calls) ==
    /\ args \in calls
    /\ given = args
    /\ same_objects = FALSE
    /\ numpy_ragged = "unknown"
    /\ memo = {}
    /\ log = <<>>
    /\ pc = "validate"
    /\ error = ""
    /\ stdout = <<>>
    /\ returned = None
    /\ handed = <<>>
    /\ optimal = None
    /\ obj = <<>>
    /\ c_l = <<>>
    /\ c_l_dtype = "numeric"
    /\ c_r = <<>>
    /\ signs = <<>>
    /\ bounds = <<>>
    /\ equalities_left = Absent
    /\ equalities_right = Absent
    /\ solution = None

Init == InitFrom(ShapeCalls \cup CanonCalls \cup BoundsCalls)

InitShape == InitFrom(ShapeCalls)

InitCanon == InitFrom(CanonCalls)

InitBounds == InitFrom(BoundsCalls)

\* The record of a finished call.
Entry(e, out, ret, h, opt) ==
    [args |-> given, same_objects |-> same_objects, error |-> e, stdout |-> out,
     returned |-> ret, handed |-> h, optimal |-> opt, solution |-> solution]

\* Control moves on inside solve().
Goto(label, out) ==
    /\ pc' = label
    /\ stdout' = out
    /\ UNCHANGED <<error, returned, log>>

\* solve() ends: it raised e ("" for none) or returned ret.
Finish(e, out, ret, h, opt) ==
    /\ pc' = "done"
    /\ error' = e
    /\ stdout' = out
    /\ returned' = ret
    /\ log' = Append(log, Entry(e, out, ret, h, opt))

\* validate(): c_l[0] of an empty matrix raises IndexError; otherwise every
\* violated condition prints its message and any message raises ValueError.
Validate ==
    /\ pc = "validate"
    /\ IF Len(args.constraints_left) = 0
         THEN Finish("IndexError", stdout, None, handed, optimal)
         ELSE LET msgs == ValidationMessages(args.objective_function,
                              args.constraints_left, args.constraints_right,
                              args.constraints_signs, args.problem_type)
              IN  IF Len(msgs) > 0
                    THEN Finish("Invalid model", stdout \o msgs, None, handed, optimal)
                    ELSE Goto("convert", stdout)
    /\ UNCHANGED <<args, given, same_objects, numpy_ragged, memo, handed, optimal>>
    /\ UNCHANGED locals

\* np.array() of the four inputs. A ragged nested list raises ValueError or
\* becomes a one-dimensional object array of lists, as the numpy build has it.
Convert ==
    /\ pc = "convert"
    /\ obj' = args.objective_function
    /\ c_l' = args.constraints_left
    /\ c_r' = args.constraints_right
    /\ signs' = args.constraints_signs
    /\ IF Ragged(args.constraints_left)
         THEN /\ numpy_ragged' \in (IF numpy_ragged = "unknown"
                                      THEN {"raises", "object"} ELSE {numpy_ragged})
              /\ c_l_dtype' = "object"
              /\ IF numpy_ragged' = "raises"
                   THEN Finish("ValueError", stdout, None, handed, optimal)
                   ELSE Goto("print_objective", stdout)
         ELSE /\ c_l_dtype' = "numeric"
              /\ Goto("print_objective", stdout)
              /\ UNCHANGED numpy_ragged
    /\ UNCHANGED <<args, given, same_objects, memo, handed, optimal>>
    /\ UNCHANGED <<bounds, equalities_left, equalities_right, solution>>

\* print_objective_function(): obj[0] of an empty objective raises IndexError
\* after the separator and the heading are out.
PrintObjective ==
    /\ pc = "print_objective"
    /\ IF Len(obj) = 0
         THEN Finish("IndexError", stdout \o <<"separator", "heading">>, None,
                     handed, optimal)
         ELSE Goto("bounds", stdout \o <<"separator", "objective", "separator">>)
    /\ UNCHANGED <<args, given, same_objects, numpy_ragged, memo, handed, optimal>>
    /\ UNCHANGED locals

\* The bounds: the argument if it is truthy, else derived from the knobs.
Bounds ==
    /\ pc = "bounds"
    /\ LET test == NotBounds(args.bounds)
       IN  CASE test = "ValueError" ->
                  /\ Finish("ValueError", stdout, None, handed, optimal)
                  /\ UNCHANGED bounds
             [] test = "True" ->
                  /\ bounds' = DerivedBounds(Len(obj),
                                   args.make_unconstrained_non_negative,
                                   args.minimum_for_all, args.maximum_for_all)
                  /\ Goto("canonicalize", stdout)
             [] OTHER ->
                  /\ bounds' = args.bounds.pairs
                  /\ Goto("canonicalize", stdout)
    /\ UNCHANGED <<args, given, same_objects, numpy_ragged, memo, handed, optimal>>
    /\ UNCHANGED <<obj, c_l, c_l_dtype, c_r, signs,
                   equalities_left, equalities_right, solution>>

\* The objective and the ">=" rows are negated in place, then the "=" rows are
\* moved out. An in-place change reaches the caller's object when the local
\* array shares its memory.
Canonicalize ==
    /\ pc = "canonicalize"
    /\ LET ge    == Mask(signs, ">=")
           eq    == Mask(signs, "=")
           obj1  == Scaled(ObjectiveSign(args.problem_type), obj)
           c_r1  == NegateWhere(c_r, ge)
           c_l1  == NegateRowsWhere(c_l, ge, c_l_dtype)
       IN  /\ obj' = obj1
           /\ IF Contains(signs, "=")
                THEN /\ equalities_left' = Array(BoolIndex(c_l1, eq))
                     /\ equalities_right' = Array(BoolIndex(c_r1, eq))
                     /\ c_l' = Delete(c_l1, eq)
                     /\ c_r' = Delete(c_r1, eq)
                ELSE /\ equalities_left' = Absent
                     /\ equalities_right' = Absent
                     /\ c_l' = c_l1
                     /\ c_r' = c_r1
           /\ args' = IF SharesMemory(args.container)
                        THEN [args EXCEPT !.objective_function = obj1,
                                          !.constraints_left = c_l1,
                                          !.constraints_right = c_r1]
                        ELSE args
    /\ Goto("linprog", stdout)
    /\ UNCHANGED <<given, same_objects, numpy_ragged, memo, handed, optimal>>
    /\ UNCHANGED <<c_l_dtype, signs, bounds, solution>>

\* linprog(): a function of its arguments. It rejects a matrix that is not a
\* two-dimensional array of numbers.
Linprog ==
    /\ pc = "linprog"
    /\ handed' = Append(handed, LinprogInput)
    /\ IF c_l_dtype = "object"
         THEN /\ Finish("ValueError", stdout, None, handed', optimal)
              /\ UNCHANGED <<memo, solution>>
         ELSE /\ \E fun \in FunValues :
                    /\ \A r \in memo : r.input = LinprogInput => r.fun = fun
                    /\ solution' = Some(fun)
                    /\ memo' = memo \cup {[input |-> LinprogInput, fun |-> fun]}
              /\ Goto("report", stdout)
    /\ UNCHANGED <<args, given, same_objects, numpy_ragged, optimal>>
    /\ UNCHANGED <<obj, c_l, c_l_dtype, c_r, signs, bounds,
                   equalities_left, equalities_right>>

\* The end of solve(): print_results() and no return value, or the solution.
Report ==
    /\ pc = "report"
    /\ IF args.display_result = TRUE
         THEN /\ optimal' = Some(Shown(solution[1], args.problem_type))
              /\ Finish("", stdout \o <<"optimal_value", "separator", "quantities",
                                        "separator", "message">>,
                        None, handed, optimal')
         ELSE /\ optimal' = optimal
              /\ Finish("", stdout, solution, handed, optimal)
    /\ UNCHANGED <<args, given, same_objects, numpy_ragged, memo, handed>>
    /\ UNCHANGED locals

\* The problem with the other problem type and the negated objective.
Dual(a) ==
    [a EXCEPT !.problem_type = IF @ = "max" THEN "min" ELSE "max",
              !.objective_function = Neg(@)]

\* The caller calls solve() again: with the same objects, or with the dual
\* problem built from them.
CallAgain ==
    /\ pc = "done"
    /\ Len(log) < MaxCalls
    /\ \E mode \in {"same", "dual"} :
          /\ mode = "dual" => args.problem_type \in {"max", "min"}
          /\ args' = IF mode = "dual" THEN Dual(args) ELSE args
          /\ same_objects' = (mode = "same")
    /\ given' = args'
    /\ pc' = "validate"
    /\ error' = ""
    /\ stdout' = <<>>
    /\ returned' = None
    /\ handed' = <<>>
    /\ optimal' = None
    /\ obj' = <<>>
    /\ c_l' = <<>>
    /\ c_l_dtype' = "numeric"
    /\ c_r' = <<>>
    /\ signs' = <<>>
    /\ bounds' = <<>>
    /\ equalities_left' = Absent
    /\ equalities_right' = Absent
    /\ solution' = None
    /\ UNCHANGED <<numpy_ragged, memo, log>>

Next ==
    \/ Validate
    \/ Convert
    \/ PrintObjective
    \/ Bounds
    \/ Canonicalize
    \/ Linprog
    \/ Report
    \/ CallAgain

Spec == Init /\ [][Next]_vars

SpecShape == InitShape /\ [][Next]_vars

SpecCanon == InitCanon /\ [][Next]_vars

SpecBounds == InitBounds /\ [][Next]_vars

-----------------------------------------------------------------------------
\* The claims

Conditions == <<"objective_length", "lengths", "problem_type", "strict_sign">>

\* The validator conditions a call violates.
Violated(a) ==
    {c \in {"objective_length"} :
        Len(a.constraints_left) > 0
        /\ Len(a.objective_function) # Len(a.constraints_left[1])}
    \cup {c \in {"lengths"} :
        ~(Len(a.constraints_left) = Len(a.constraints_right)
          /\ Len(a.constraints_right) = Len(a.constraints_signs))}
    \cup {c \in {"problem_type"} : a.problem_type \notin {"max", "min"}}
    \cup {c \in {"strict_sign"} :
        \E i \in 1..Len(a.constraints_signs) : a.constraints_signs[i] \in {"<", ">"}}

IsViolated(c) == c \in Violated(given)

\* The call was rejected by validation: nothing but the messages `out` printed,
\* the "Invalid model" error raised, no transformation, no solver call.
Rejected(out) ==
    /\ pc \in {"validate", "done"}
    /\ pc = "done" => error = "Invalid model" /\ stdout = out
    /\ pc = "validate" => stdout = <<>>
    /\ handed = <<>>
    /\ obj = <<>> /\ c_l = <<>> /\ c_r = <<>>

\* C1: a call that violates at least one of the four validator conditions
\* prints one message per violated condition and then fails with "Invalid
\* model", before the objective is printed, before any transformation and
\* without a solver call.
C1_EveryViolationRejected ==
    Violated(given) # {} => Rejected(SelectSeq(Conditions, IsViolated))

\* C2: a call in which some constraint row (any row) differs in length from the
\* objective fails with "Invalid model" before any transformation and without
\* a solver call.
C2_EveryRowLengthChecked ==
    (\E i \in 1..Len(given.constraints_left) :
        Len(given.constraints_left[i]) # Len(given.objective_function))
    => /\ pc \in {"validate", "done"}
       /\ pc = "done" => error = "Invalid model"
       /\ handed = <<>>

\* C3: a call whose sign vector holds any token other than "<=", ">=" and "="
\* fails with "Invalid model"; no such row reaches the canonical form or the
\* solver.
C3_OnlyRecognizedSigns ==
    (\E i \in 1..Len(given.constraints_signs) :
        given.constraints_signs[i] \notin {"<=", ">=", "="})
    => /\ pc \in {"validate", "done"}
       /\ pc = "done" => error = "Invalid model"
       /\ handed = <<>>

\* The indices of the rows whose sign is in toks, in order.
RowsWith(sg, toks) ==
    LET in_toks(i) == sg[i] \in toks
    IN  SelectSeq([i \in 1..Len(sg) |-> i], in_toks)

\* The reference canonical form of a call's constraints.
ReferenceBlocks(a) ==
    LET sg == a.constraints_signs
        ub == RowsWith(sg, {"<=", ">="})
        eq == RowsWith(sg, {"="})
        flip(i, v) == IF sg[i] = ">=" THEN -v ELSE v
    IN  [A_ub |-> [k \in 1..Len(ub) |->
                     [j \in 1..Len(a.constraints_left[ub[k]]) |->
                        flip(ub[k], a.constraints_left[ub[k]][j])]],
         b_ub |-> [k \in 1..Len(ub) |-> flip(ub[k], a.constraints_right[ub[k]])],
         A_eq |-> IF Len(eq) = 0 THEN Absent
                  ELSE Array([k \in 1..Len(eq) |-> a.constraints_left[eq[k]]]),
         b_eq |-> IF Len(eq) = 0 THEN Absent
                  ELSE Array([k \in 1..Len(eq) |-> a.constraints_right[eq[k]]])]

\* C4: the blocks handed to the solver are the reference canonical form: the
\* "<=" and ">=" rows in order with the ">=" rows negated, the "=" rows in order
\* unflipped, every row in exactly one block, the equality block absent when
\* no row has sign "=".
C4_CanonicalBlocks ==
    handed # <<>> =>
        LET h == handed[1]
            ref == ReferenceBlocks(given)
        IN  /\ h.A_ub = ref.A_ub /\ h.b_ub = ref.b_ub
            /\ h.A_eq = ref.A_eq /\ h.b_eq = ref.b_eq
            /\ Len(h.A_ub) + Len(h.A_eq.rows) = Len(given.constraints_left)

\* C5: with no explicit bounds, every variable's lower bound is minimum_for_all
\* whenever it is supplied (0 included), else 0 or unbounded by the flag; its
\* upper bound is maximum_for_all whenever it is supplied (0 included), else
\* unbounded.
C5_DerivedBounds ==
    (given.bounds.kind = "None" /\ handed # <<>>) =>
        LET lower == IF given.minimum_for_all # None THEN given.minimum_for_all
                     ELSE IF given.make_unconstrained_non_negative THEN Some(0)
                     ELSE None
            upper == IF given.maximum_for_all # None THEN given.maximum_for_all
                     ELSE None
        IN  /\ Len(handed[1].bounds) = Len(given.objective_function)
            /\ \A i \in 1..Len(handed[1].bounds) :
                  handed[1].bounds[i] = <<lower, upper>>

\* C6: explicit bounds, given as a list or as an array, are handed to the
\* solver unchanged whatever the knobs, and the call does not fail because of
\* them.
C6_ExplicitBoundsPassThrough ==
    given.bounds.kind # "None" =>
        /\ error = ""
        /\ pc \in {"canonicalize", "linprog", "report"} => bounds = given.bounds.pairs
        /\ handed # <<>> => handed[1].bounds = given.bounds.pairs
        /\ pc = "done" => handed # <<>>

\* C7: the objective handed to the solver is negated iff the type is "max";
\* a "max" call with objective c and the "min" call with objective -c hand the
\* solver the same input, get the same solution, and the optimal value printed
\* by the "max" call is -1 times the one printed by the "min" call.
C7_Duality ==
    /\ handed # <<>> =>
          handed[1].c = IF given.problem_type = "max"
                          THEN Neg(given.objective_function)
                          ELSE given.objective_function
    /\ \A i, j \in 1..Len(log) :
          (log[i].args.problem_type = "max" /\ log[j].args = Dual(log[i].args)) =>
              /\ log[i].handed = log[j].handed
              /\ log[i].solution = log[j].solution
              /\ log[i].returned = log[j].returned
              /\ (log[i].optimal = None) = (log[j].optimal = None)
              /\ log[i].optimal # None =>
                    /\ log[i].optimal[1].hundredths = -1 * log[j].optimal[1].hundredths
                    /\ log[i].optimal[1].integer = log[j].optimal[1].integer

\* A "max" call and its dual "min" call both reached the solver and printed.
C7_Witness ==
    \E i, j \in 1..Len(log) :
        /\ log[i].args.problem_type = "max"
        /\ log[j].args = Dual(log[i].args)
        /\ Len(log[i].handed) = 1 /\ Len(log[j].handed) = 1
        /\ log[i].optimal # None /\ log[j].optimal # None
        /\ log[i].optimal[1].hundredths # 0
        /\ log[i].handed[1].c # log[i].args.objective_function

\* C8: in silent mode solve() prints nothing during the whole call and returns
\* the solution; otherwise it prints the result and returns nothing.
C8_DisplayResult ==
    /\ given.display_result = FALSE =>
          /\ stdout = <<>>
          /\ (pc = "done" /\ error = "") => returned # None /\ returned = solution
    /\ (given.display_result = TRUE /\ pc = "done" /\ error = "") =>
          optimal # None /\ returned = None

\* C9: a call leaves the caller's objects as they were passed, and a second
\* call with the same objects hands the solver the same input and returns
\* the same solution.
C9_InputsUnchanged ==
    /\ args = given
    /\ \A k \in 2..Len(log) :
          log[k].same_objects =>
              /\ log[k].args = log[k - 1].args
              /\ log[k].handed = log[k - 1].handed
              /\ log[k].returned = log[k - 1].returned
              /\ log[k].solution = log[k - 1].solution

\* Two silent calls on the same arrays, whose objective and ">=" rows were
\* negated in place, both returned a solution.
C9_Witness ==
    /\ Len(log) >= 2
    /\ log[2].same_objects
    /\ log[2].args.container = "ndarray"
    /\ log[2].args.display_result = FALSE
    /\ log[2].args.problem_type = "max"
    /\ Contains(log[2].args.constraints_signs, ">=")
    /\ log[1].returned # None /\ log[2].returned # None
    /\ Len(log[2].handed) = 1

\* C10: the OPTIMAL VALUE printed is fun rounded to 2 decimals, times -1 iff
\* the type is "max", shown as an integer iff the rounded value has no
\* fractional part.
C10_OptimalValueRounded ==
    optimal # None =>
        LET rounded == RoundHundredths(solution[1])
        IN  optimal[1] =
              [integer |-> rounded % 100 = 0,
               hundredths |-> IF given.problem_type = "max" THEN -rounded ELSE rounded]

=============================================================================
